---- MODULE Spec2Model ----
(***************************************************************************)
(* redflash: host-side orchestration of the raymarching path tracer        *)
(* (src/redflash/redflash.cpp).  The model follows main(): command-line    *)
(* scan, context creation, camera and scene setup, validation, then the    *)
(* interactive GLUT loop or the batch loop with its deadline prediction.   *)
(*                                                                         *)
(* Vectors and matrices are symbolic.  camera_eye / camera_lookat hold the *)
(* identifier of a vector value: 0 is the zero-initialised global, 1 the   *)
(* pose setupCamera stores, and every assignment of a value different from *)
(* the current one takes the next identifier.  Times are whole seconds.    *)
(***************************************************************************)
EXTENDS Integers, Sequences, FiniteSets, TLC

VARIABLES
    pc,                 \* position of the process in main()
    exit_code,          \* -1 while running, else the status given to exit()
    argv,               \* argv[1..], the arguments not yet scanned
    out_file, sample, time_limit, use_time_limit,      \* locals of main
    use_pbo, width, height,                            \* globals set by the scan
    glut_initialized,   \* glutInitialize() was called
    exit_handler,       \* registerExitHandler() was called
    context,            \* 0, or the handle of the created context
    output_buffer,      \* <<>> or <<w, h>>: size of context["output_buffer"]
    ctx_frame_number,   \* context["frame_number"], 0 while unset
    top_shadower, top_object,      \* children of the two published Groups
    sysNumberOfLights,  \* context["sysNumberOfLights"]
    sysLightParameters, \* contents of m_bufferLightParameters
    light_registry,     \* the LightParameters createGeometryLight registers
    raymarch_scale,     \* the world_scale and unit_scale createGeometry passes
    lightParameters,    \* the same vector after the finalising loop
    light_group,        \* the GeometryGroup createGeometryLight returns
    validated,          \* context->validate() returned
    camera_eye, camera_lookat, camera_rotate, camera_changed,
    frame_number, frame,
    mouse_button, mouse_prev_pos,
    now,                \* sutil::currentTime()
    launch_time, last_time, loop_i,                    \* locals of main
    sampled,            \* the count printed as "sampled:", -1 if none
    \* history, not program state
    ev,                 \* <<name, a, b>> of the last handler or step
    created,            \* Context::create() calls that returned
    destroys,           \* context->destroy() executions
    destroy_calls,      \* destroyContext() calls
    launches,           \* context->launch() calls that returned
    in_flight,          \* context->launch() calls entered and not yet returned
    exports,            \* displayBufferPNG calls of the batch path (line 849)
    setups, finalizes,  \* setupScene() / createGeometryLight() runs
    failed,             \* an exception reached SUTIL_CATCH
    error_kind,         \* "none", or what was reported: "usage" (printUsageAndExit),
                        \* "asset" (resolveDataPath threw), "context" (any other throw)
    last_resolve_pub,   \* frame number the previous updateCamera published
    resolves,           \* updateCamera() executions
    resolves_at_launch, \* value of `resolves` when the last launch was entered
    pose_at_launch,     \* <<camera_eye, camera_lookat>> at that moment
    moves,              \* glutMouseMotion events handled
    held,               \* the mouse buttons the user holds down
    after_release,      \* the last button event was a release
    eye_offset,         \* camera_eye - camera_lookat per component, in units
                        \* of the float spacing at camera_lookat, while the
                        \* eye is that close; FarFromLookat otherwise
    orbit_trail,        \* product of the arcball rotations of the orbit moves
                        \* since the last updateCamera, as a reduced word
    prev_dur,           \* duration of the previous batch frame
    chk,                \* <<used_time, delta_time>> of the last deadline check
    at_export           \* <<launches, destroys>> when the image was exported

procVars ==
    << pc, exit_code >>
argVars ==
    << argv, out_file, sample, time_limit, use_time_limit, use_pbo >>
sizeVars ==
    << width, height >>
glutVars ==
    << glut_initialized, exit_handler >>
ctxVars ==
    << context, created, destroys, destroy_calls >>
sceneVars ==
    << top_shadower, top_object, sysNumberOfLights, sysLightParameters,
       light_registry, raymarch_scale, lightParameters, light_group, setups,
       finalizes,
       validated >>
poseVars ==
    << camera_eye, camera_lookat, camera_rotate, frame, orbit_trail >>
counterVars ==
    << camera_changed, frame_number, ctx_frame_number, last_resolve_pub,
       resolves >>
mouseVars ==
    << mouse_button, mouse_prev_pos, moves, held, after_release, eye_offset >>
\* what the window system knows about the pointer, not program state
pointerVars ==
    << held, after_release >>
timeVars ==
    << now, launch_time, last_time, loop_i, sampled, prev_dur, chk >>
histVars ==
    << launches, in_flight, resolves_at_launch, pose_at_launch, exports,
       at_export, failed, error_kind >>

vars ==
    << procVars, argVars, sizeVars, glutVars, ctxVars, output_buffer,
       sceneVars, poseVars, counterVars, mouseVars, timeVars, histVars, ev >>

-----------------------------------------------------------------------------
\* Bounds of the exploration

\* launches issued in one execution (interactive frames, unbounded batch loop)
MaxLaunches ==
    3
\* pointer-move events handled in one execution
MaxMoves ==
    2
\* lights registered before createGeometryLight finalises them
MaxLights ==
    2
\* mouse buttons held down at the same time
MaxHeld ==
    2

\* per-frame durations and time spent before the batch loop, in seconds
Durations ==
    {0, 1, 9, 2000}
SetupTimes ==
    {0, 1, 3000}

\* cursor positions delivered by the window system
Positions ==
    {<<0, 0>>, <<3, 2>>}
\* sizes delivered to the reshape callback
ResizeSizes ==
    {<<0, 0>>, <<1, 1>>, <<480, 270>>}
\* contents of the uninitialised members of the two registered lights
SceneJunk ==
    {<< <<0, 0, 0>>, <<0, 0, 0>> >>, << <<0, 0, 2>>, <<0, 0, 0>> >>}

\* command lines explored (argv[1..])
ArgVectors ==
    { <<>>,
      <<"-n">>,
      <<"-W", "1", "-H", "1">>,
      <<"-f", "out.png">>,
      <<"-f", "out.png", "-s", "2">>,
      <<"--sample", "0", "--file", "out.png">>,
      <<"-f", "out.png", "-t", "10">>,
      <<"-s", "1", "-f", "out.png", "--time", "3">>,
      <<"-f", "out.png", "-s", "3", "-W", "1", "-H", "1">>,
      <<"-h">>,
      <<"-x">>,
      <<"-f">>,
      <<"-n", "-s">>,
      <<"-t", "10", "-W">> }

-----------------------------------------------------------------------------
\* Command line (main, lines 719-788)

\* atoi / atof on the value tokens of ArgVectors; text that is no number gives 0
Atoi(tok) ==
    CASE tok = "0" -> 0
      [] tok = "1" -> 1
      [] tok = "2" -> 2
      [] tok = "3" -> 3
      [] tok = "10" -> 10
      [] OTHER -> 0

\* conversion of an int to the uint32_t globals width and height: the value
\* itself for the non-negative ints drawn here (a negative int would wrap to
\* 2^32 + n, above the integers TLC represents, and none is drawn)
ToUint32(n) ==
    n

\* locals and globals as main() initialises them before the scan
DefaultOptions ==
    [ out_file |-> "", sample |-> 20, time_limit |-> 3600,
      use_time_limit |-> FALSE, use_pbo |-> TRUE,
      width |-> 480, height |-> 270, usage |-> FALSE ]

RECURSIVE ScanArgsSkipUnknown(_, _, _)
\* a scan that steps over an argument it does not know instead of stopping
ScanArgsSkipUnknown(args, i, o) ==
    IF i > Len(args) THEN o
    ELSE
    LET arg == args[i]
        last == (i = Len(args))
        stop == [o EXCEPT !.usage = TRUE]
    IN  IF arg \in {"-h", "--help"} THEN stop
        ELSE IF arg \in {"-f", "--file"} THEN
            IF last THEN stop
            ELSE ScanArgsSkipUnknown(args, i + 2,
                     [o EXCEPT !.out_file = args[i + 1], !.use_pbo = FALSE])
        ELSE IF arg \in {"-n", "--nopbo"} THEN
            ScanArgsSkipUnknown(args, i + 1, [o EXCEPT !.use_pbo = FALSE])
        ELSE IF arg \in {"-s", "--sample"} THEN
            IF last THEN stop
            ELSE ScanArgsSkipUnknown(args, i + 2,
                     [o EXCEPT !.sample = Atoi(args[i + 1])])
        ELSE IF arg \in {"-t", "--time"} THEN
            IF last THEN stop
            ELSE ScanArgsSkipUnknown(args, i + 2,
                     [o EXCEPT !.time_limit = Atoi(args[i + 1]),
                               !.use_time_limit = TRUE])
        ELSE IF arg \in {"-W", "--width"} THEN
            IF last THEN stop
            ELSE ScanArgsSkipUnknown(args, i + 2,
                     [o EXCEPT !.width = ToUint32(Atoi(args[i + 1]))])
        ELSE IF arg \in {"-H", "--height"} THEN
            IF last THEN stop
            ELSE ScanArgsSkipUnknown(args, i + 2,
                     [o EXCEPT !.height = ToUint32(Atoi(args[i + 1]))])
        ELSE ScanArgsSkipUnknown(args, i + 1, o)

RECURSIVE ScanArgs(_, _, _)
\* the for loop over argv: i is the index of the argument under the scan;
\* usage = TRUE stands for printUsageAndExit having been called
ScanArgs(args, i, o) ==
    IF i > Len(args) THEN o
    ELSE
    LET arg == args[i]
        last == (i = Len(args))
        stop == [o EXCEPT !.usage = TRUE]
    IN  IF arg \in {"-h", "--help"} THEN stop
        ELSE IF arg \in {"-f", "--file"} THEN
            IF last THEN stop
            ELSE ScanArgs(args, i + 2,
                     [o EXCEPT !.out_file = args[i + 1], !.use_pbo = FALSE])
        ELSE IF arg \in {"-n", "--nopbo"} THEN
            ScanArgs(args, i + 1, [o EXCEPT !.use_pbo = FALSE])
        ELSE IF arg \in {"-s", "--sample"} THEN
            IF last THEN stop
            ELSE ScanArgs(args, i + 2, [o EXCEPT !.sample = Atoi(args[i + 1])])
        ELSE IF arg \in {"-t", "--time"} THEN
            IF last THEN stop
            ELSE ScanArgs(args, i + 2,
                     [o EXCEPT !.time_limit = Atoi(args[i + 1]),
                               !.use_time_limit = TRUE])
        ELSE IF arg \in {"-W", "--width"} THEN
            IF last THEN stop
            ELSE ScanArgs(args, i + 2,
                     [o EXCEPT !.width = ToUint32(Atoi(args[i + 1]))])
        ELSE IF arg \in {"-H", "--height"} THEN
            IF last THEN stop
            ELSE ScanArgs(args, i + 2,
                     [o EXCEPT !.height = ToUint32(Atoi(args[i + 1]))])
        ELSE stop

-----------------------------------------------------------------------------
\* Scene and lights (lines 187-451).  Coordinates and colours are given in
\* thousandths, radii in whole units.

\* Matrix4x4::identity(); any other rotation is the tuple of its arcball arguments
Identity ==
    << >>

\* the eye is more than a few float steps away from the lookat
FarFromLookat ==
    << >>
\* camera_eye == camera_lookat, component by component
AtLookat ==
    <<0, 0, 0>>
\* the identifier of a float3 whose components are NaN
NaNPose ==
    -1

\* optix::normalize: v / length(v).  Only vectors with at most one non-zero
\* component are normalised exactly here; the zero vector divides by a zero
\* length and yields NaN components
Sign(x) ==
    IF x > 0 THEN 1 ELSE IF x < 0 THEN -1 ELSE 0
Normalize(v) ==
    IF v = <<0, 0, 0>> THEN [nan |-> TRUE, dir |-> v]
    ELSE IF Cardinality({k \in 1..3 : v[k] # 0}) = 1
         THEN [nan |-> FALSE, dir |-> <<Sign(v[1]), Sign(v[2]), Sign(v[3])>>]
         ELSE [nan |-> FALSE, dir |-> v]

\* 4.0f * M_PIf * radius * radius, in units of pi
SphereArea(radius) ==
    4 * radius * radius

\* values an uninitialised float3 member of a LightParameter may hold
UninitVecs ==
    {<<0, 0, 0>>, <<0, 0, 2>>}
\* LightParameter::area is not set by the registering blocks; the loop of
\* lines 404-413 overwrites it before anything reads it
UninitFloat ==
    -1

\* a LightParameter as the two blocks of createGeometryLight fill it in:
\* u, v, normal and area are not assigned there (junk is what they hold)
NewLight(position, radius, emission, junk) ==
    [ lightType |-> "SPHERE", position |-> position, radius |-> radius,
      emission |-> emission, area |-> UninitFloat,
      u |-> junk, v |-> junk, normal |-> junk ]

\* the two lights createGeometryLight registers (lines 385-401)
SceneLights(junk1, junk2) ==
    << NewLight(<<50000, 310000, 50000>>, 10, <<1000, 1000, 1000>>, junk1),
       NewLight(<<10, 166787, 190000>>, 2, <<10000, 10, 10>>, junk2) >>

\* createSphereObject (lines 215-230), then setMaterial and the variables the
\* caller declares on the instance
createSphereObject(center, radius) ==
    [ shape |-> "sphere", center |-> center, radius |-> radius ]

\* float division (line 204): a zero divisor gives an infinity or a NaN and
\* raises nothing
Divide(a, b) ==
    [ finite |-> (b # 0), num |-> a, den |-> b ]

\* createRaymrachingObject (lines 197-213): local_scale = world_scale /
\* unit_scale component by component, the box is center -+ world_scale, and
\* the instance is created whatever the quotient is
createRaymrachingObject(center, world_scale, unit_scale) ==
    [ shape |-> "raymarching", center |-> center,
      local_scale |-> [c \in 1..3 |-> Divide(world_scale[c], unit_scale[c])],
      aabb_min |-> [c \in 1..3 |-> center[c] - world_scale[c]],
      aabb_max |-> [c \in 1..3 |-> center[c] + world_scale[c]] ]

\* setMaterial (lines 187-195)
setMaterial(gi, material, color_name, color) ==
    [ geometry |-> gi, material |-> material,
      color_name |-> color_name, color |-> color ]

\* body of the loop over lightParameters (lines 406-407)
FinalizeLight(light) ==
    [ light EXCEPT !.area = SphereArea(light.radius),
                   !.normal = Normalize(light.normal) ]

\* the instance the loop pushes for one light (lines 409-411)
LightInstance(light, index) ==
    [ gi |-> setMaterial(createSphereObject(light.position, light.radius),
                         "diffuse_light", "emission_color", light.emission),
      lightMaterialId |-> index ]

\* a loop that forgets ++index
NextLightIndexStuck(index) ==
    index

\* int index = 0 (line 403) and ++index (line 412)
FirstLightIndex ==
    0
NextLightIndex(index) ==
    index + 1

RECURSIVE LightLoop(_, _, _, _)
\* the for loop of lines 404-413: k walks the list, acc collects the
\* finalised parameters and the geometry instances
LightLoop(lights, k, index, acc) ==
    IF k > Len(lights) THEN acc
    ELSE LET light == FinalizeLight(lights[k])
         IN  LightLoop(lights, k + 1, NextLightIndex(index),
                 [ lights |-> Append(acc.lights, light),
                   gis |-> Append(acc.gis, LightInstance(light, index)) ])

\* one iteration of updateLightParameters (lines 359-368): field by field
CopyLight(mat) ==
    [ position |-> mat.position, emission |-> mat.emission,
      radius |-> mat.radius, area |-> mat.area, u |-> mat.u, v |-> mat.v,
      normal |-> mat.normal, lightType |-> mat.lightType ]

\* an element of the buffer that was never written
UninitLight ==
    [ position |-> <<0, 0, 0>>, emission |-> <<0, 0, 0>>, radius |-> 0,
      area |-> UninitFloat, u |-> <<0, 0, 0>>, v |-> <<0, 0, 0>>,
      normal |-> [nan |-> TRUE, dir |-> <<0, 0, 0>>], lightType |-> "NONE" ]

\* m_bufferLightParameters->setSize( lightParameters.size() ) (line 422)
LightBufferSize(lights) ==
    Len(lights)

\* updateLightParameters (lines 355-371) on a buffer of `size` elements mapped
\* WRITE_DISCARD: elements the loop does not write stay indeterminate
updateLightParameters(size, lights) ==
    [ k \in 1..size |->
        IF k <= Len(lights) THEN CopyLight(lights[k]) ELSE UninitLight ]

\* createGeometryLight (lines 373-428): the light group, the buffer and the
\* published count
createGeometryLight(registered) ==
    LET done == LightLoop(registered, 1, FirstLightIndex,
                          [lights |-> <<>>, gis |-> <<>>])
    IN  [ lightParameters |-> done.lights,
          light_group |-> [name |-> "light_gg", gis |-> done.gis],
          buffer |-> updateLightParameters(LightBufferSize(done.lights),
                                           done.lights),
          sysNumberOfLights |-> Len(done.lights) ]

\* createGeometryTriangles (lines 283-304): the cow mesh
createGeometryTriangles ==
    [ name |-> "tri_gg",
      gis |-> << [ gi |-> [ geometry |-> [shape |-> "mesh", file |-> "cow.obj"],
                            material |-> "diffuse",
                            color_name |-> "albedo_color",
                            color |-> <<900, 100, 100>> ] ] >> ]

\* make_float3(300.0f) and make_float3(4.3f) (lines 337-338)
SceneScale ==
    [ world |-> <<300000, 300000, 300000>>, unit |-> <<4300, 4300, 4300>> ]

\* createGeometry (lines 306-351): the raymarching volume and a sphere
createGeometry(scale) ==
    [ name |-> "gg",
      gis |-> << [ gi |-> setMaterial(
                       createRaymrachingObject(<<0, 0, 0>>, scale.world, scale.unit),
                       "diffuse", "albedo_color", <<800, 800, 800>>) ],
                 [ gi |-> setMaterial(
                       createSphereObject(<<0, 310000, 50000>>, 10),
                       "diffuse", "albedo_color", <<50, 800, 50>>) ] >> ]

\* a shadow group that also receives the light group
ShadowChildrenWithLights(tri_gg, gg, light_gg) ==
    << gg, tri_gg, light_gg >>

\* children of the Group published as top_shadower (lines 439-443)
ShadowChildren(tri_gg, gg, light_gg) ==
    << gg, tri_gg >>
\* children of the Group published as top_object (lines 445-450)
ObjectChildren(tri_gg, gg, light_gg) ==
    << gg, tri_gg, light_gg >>

-----------------------------------------------------------------------------
\* Initial state: the globals as their definitions initialise them (lines
\* 73-103) and main() before its first statement

\* a default-constructed global Matrix4x4 (camera_rotate, frame, frame_inv)
ZeroMatrix ==
    << 0 >>

\* GLUT_LEFT_BUTTON, GLUT_MIDDLE_BUTTON, GLUT_RIGHT_BUTTON and a wheel button
Buttons ==
    {0, 1, 2, 3}
\* GLUT_DOWN, GLUT_UP
ButtonStates ==
    {0, 1}
\* 'q', ESC, 's' and a key the switch does not name
Keys ==
    {113, 27, 115, 97}

InitCommon ==
    /\ exit_code = -1
    /\ out_file = DefaultOptions.out_file
    /\ sample = DefaultOptions.sample
    /\ time_limit = DefaultOptions.time_limit
    /\ use_time_limit = DefaultOptions.use_time_limit
    /\ use_pbo = DefaultOptions.use_pbo
    /\ width = DefaultOptions.width
    /\ height = DefaultOptions.height
    /\ exit_handler = FALSE
    /\ ctx_frame_number = 0
    /\ top_shadower = << >>
    /\ top_object = << >>
    /\ sysNumberOfLights = 0
    /\ sysLightParameters = << >>
    /\ lightParameters = << >>
    /\ light_group = << >>
    /\ validated = FALSE
    /\ camera_changed = TRUE
    /\ frame_number = 1
    /\ frame = ZeroMatrix
    /\ mouse_button = 0
    /\ mouse_prev_pos = <<0, 0>>
    /\ now = 0
    /\ launch_time = 0
    /\ last_time = 0
    /\ loop_i = 0
    /\ sampled = -1
    /\ destroys = 0
    /\ destroy_calls = 0
    /\ launches = 0
    /\ in_flight = 0
    /\ exports = 0
    /\ setups = 0
    /\ finalizes = 0
    /\ failed = FALSE
    /\ error_kind = "none"
    /\ last_resolve_pub = 0
    /\ resolves = 0
    /\ resolves_at_launch = 0
    /\ pose_at_launch = <<0, 0>>
    /\ moves = 0
    /\ held = {}
    /\ after_release = FALSE
    /\ orbit_trail = << >>
    /\ prev_dur = 0
    /\ chk = <<0, 0>>
    /\ at_export = <<0, 0>>

Init ==
    /\ InitCommon
    /\ pc = "main"
    /\ argv \in ArgVectors
    /\ glut_initialized = FALSE
    /\ context = 0
    /\ created = 0
    /\ output_buffer = << >>
    /\ camera_eye = 0
    /\ camera_lookat = 0
    /\ camera_rotate = ZeroMatrix
    /\ ev = <<"start", 0, 0>>
    /\ \E junk \in SceneJunk :
           light_registry = SceneLights(junk[1], junk[2])
    /\ raymarch_scale = SceneScale
    /\ eye_offset = FarFromLookat

-----------------------------------------------------------------------------
\* Context lifecycle

\* a teardown that does not clear the handle after destroying the context
destroyContextKeepHandle ==
    /\ destroy_calls' = destroy_calls + 1
    /\ IF context # 0
       THEN /\ destroys' = destroys + 1
            /\ context' = context
       ELSE UNCHANGED << destroys, context >>
    /\ UNCHANGED created

\* destroyContext (lines 166-173)
destroyContext ==
    /\ destroy_calls' = destroy_calls + 1
    /\ IF context # 0
       THEN /\ destroys' = destroys + 1
            /\ context' = 0
       ELSE UNCHANGED << destroys, context >>
    /\ UNCHANGED created

\* the scan of the command line (lines 717-788); launch_time is read first
ParseArgs ==
    /\ pc = "main"
    /\ LET o == ScanArgs(argv, 1, DefaultOptions)
       IN  /\ out_file' = o.out_file
           /\ sample' = o.sample
           /\ time_limit' = o.time_limit
           /\ use_time_limit' = o.use_time_limit
           /\ use_pbo' = o.use_pbo
           /\ width' = o.width
           /\ height' = o.height
           /\ IF o.usage
              THEN /\ pc' = "exit"                     \* printUsageAndExit
                   /\ exit_code' = 1
                   /\ error_kind' = "usage"
              ELSE /\ pc' = "try"
                   /\ exit_code' = exit_code
                   /\ error_kind' = error_kind
    /\ launch_time' = now
    /\ argv' = << >>
    /\ ev' = <<"ParseArgs", 0, 0>>
    /\ UNCHANGED << glutVars, ctxVars, output_buffer, sceneVars, poseVars,
                    counterVars, mouseVars, launches, in_flight,
                    resolves_at_launch, pose_at_launch, exports,
                    at_export, failed,
                    now, last_time, loop_i, sampled, prev_dur, chk >>

\* lines 792-798: the window system is initialised only for the interop path
InitWindow ==
    /\ pc = "try"
    /\ glut_initialized' = (use_pbo /\ out_file = "")
    /\ pc' = "createContext"
    /\ ev' = <<"InitWindow", 0, 0>>
    /\ UNCHANGED << exit_code, argVars, sizeVars, exit_handler, ctxVars,
                    output_buffer, sceneVars, poseVars, counterVars, mouseVars,
                    timeVars, histVars >>

\* the candidate locations of resolveDataPath in priority order (lines
\* 141-143): the current directory, its data/ and the samples' data/
SourceLocations ==
    {1, 2, 3}

\* resolveDataPath (lines 135-158) when the file exists at the locations
\* `exists`: the first of them, or 0 for the Exception of line 157
resolveDataPath(exists) ==
    IF exists = {} THEN 0
    ELSE CHOOSE l \in exists : \A m \in exists : l <= m

\* createContext (lines 252-281).  Context::create may throw before the global
\* is assigned; resolveDataPath (line 277) and the other context calls throw
\* after the context and its output buffer exist
createContext ==
    /\ pc = "createContext"
    /\ \/ /\ context' = 1
          /\ created' = created + 1
          /\ output_buffer' = <<width, height>>
          /\ \E exists \in SUBSET SourceLocations :
                 IF resolveDataPath(exists) = 0
                 THEN /\ pc' = "catch"
                      /\ failed' = TRUE
                      /\ error_kind' = "asset"
                 ELSE \/ /\ pc' = "setupCamera"
                         /\ UNCHANGED << failed, error_kind >>
                      \/ /\ pc' = "catch"
                         /\ failed' = TRUE
                         /\ error_kind' = "context"
       \/ /\ pc' = "catch"
          /\ failed' = TRUE /\ error_kind' = "context"
          /\ UNCHANGED << context, created, output_buffer >>
    /\ ev' = <<"createContext", 0, 0>>
    /\ UNCHANGED << exit_code, argVars, sizeVars, glutVars, destroys,
                    destroy_calls, sceneVars, poseVars, counterVars, mouseVars,
                    timeVars, launches, in_flight, resolves_at_launch,
                    pose_at_launch, exports,
                    at_export >>

\* setupCamera (lines 453-466)
setupCamera ==
    /\ pc = "setupCamera"
    /\ camera_eye' = 1
    /\ camera_lookat' = 1
    /\ camera_rotate' = Identity
    /\ pc' = "setupScene"
    /\ ev' = <<"setupCamera", 0, 0>>
    /\ UNCHANGED << exit_code, argVars, sizeVars, glutVars, ctxVars,
                    output_buffer, sceneVars, frame, orbit_trail, counterVars,
                    mouseVars, timeVars, histVars >>

\* a main() that enters the interactive loop without validating the context
AfterSetupSceneNoValidate ==
    "glutRun"

\* the statement main() runs once setupScene has returned (lines 802-804)
AfterSetupScene ==
    "validate"

\* setupScene (lines 430-451).  It throws from createGeometryTriangles when
\* cow.obj is found at no location (line 297) or a context call fails there,
\* or from a later context call, after the light buffer was published
setupScene ==
    /\ pc = "setupScene"
    /\ setups' = setups + 1
    /\ LET tri_gg == createGeometryTriangles
           gg == createGeometry(raymarch_scale)
           lights == createGeometryLight(light_registry)
       IN  \/ /\ pc' = "catch"
              /\ failed' = TRUE
              /\ \E exists \in SUBSET SourceLocations :
                     error_kind' = IF resolveDataPath(exists) = 0
                                   THEN "asset" ELSE "context"
              /\ UNCHANGED << top_shadower, top_object, sysNumberOfLights,
                              sysLightParameters, lightParameters, light_group,
                              finalizes >>
           \/ /\ finalizes' = finalizes + 1
              /\ lightParameters' = lights.lightParameters
              /\ light_group' = lights.light_group
              /\ sysLightParameters' = lights.buffer
              /\ sysNumberOfLights' = lights.sysNumberOfLights
              /\ \/ /\ pc' = "catch"
                    /\ failed' = TRUE /\ error_kind' = "context"
                    /\ UNCHANGED << top_shadower, top_object >>
                 \/ /\ top_shadower' = ShadowChildren(tri_gg, gg, lights.light_group)
                    /\ top_object' = ObjectChildren(tri_gg, gg, lights.light_group)
                    /\ pc' = AfterSetupScene
                    /\ failed' = failed /\ error_kind' = error_kind
    /\ ev' = <<"setupScene", 0, 0>>
    /\ UNCHANGED << exit_code, argVars, sizeVars, glutVars, ctxVars,
                    output_buffer, light_registry, raymarch_scale, validated,
                    poseVars,
                    counterVars, mouseVars, timeVars, launches, in_flight,
                    resolves_at_launch, pose_at_launch,
                    exports, at_export >>

\* context->validate() and the choice of the mode (lines 804-811)
validate ==
    /\ pc = "validate"
    /\ \/ /\ validated' = TRUE
          /\ pc' = IF out_file = "" THEN "glutRun" ELSE "batch"
          /\ failed' = failed /\ error_kind' = error_kind
       \/ /\ pc' = "catch"
          /\ failed' = TRUE /\ error_kind' = "context"
          /\ UNCHANGED validated
    /\ ev' = <<"validate", 0, 0>>
    /\ UNCHANGED << exit_code, argVars, sizeVars, glutVars, ctxVars,
                    output_buffer, top_shadower, top_object, sysNumberOfLights,
                    sysLightParameters, light_registry, raymarch_scale,
                    lightParameters,
                    light_group, setups, finalizes, poseVars, counterVars,
                    mouseVars, timeVars, launches, in_flight,
                    resolves_at_launch, pose_at_launch, exports,
                    at_export >>

\* SUTIL_CATCH( context->get() ) (line 859): the error is reported and the
\* process exits with status 1
catch ==
    /\ pc = "catch"
    /\ pc' = "exit"
    /\ exit_code' = 1
    /\ ev' = <<"catch", 0, 0>>
    /\ UNCHANGED << argVars, sizeVars, glutVars, ctxVars, output_buffer,
                    sceneVars, poseVars, counterVars, mouseVars, timeVars,
                    histVars >>

\* exit(): the handlers registered with atexit run.  This is the build
\* without _WIN32 (line 182); the _WIN32 build hands destroyContext to
\* glutCloseFunc instead
runExitHandlers ==
    /\ pc = "exit"
    /\ pc' = "done"
    /\ IF exit_handler
       THEN destroyContext
       ELSE UNCHANGED ctxVars
    /\ ev' = <<"exit", 0, 0>>
    /\ UNCHANGED << exit_code, argVars, sizeVars, glutVars, output_buffer,
                    sceneVars, poseVars, counterVars, mouseVars, timeVars,
                    histVars >>

-----------------------------------------------------------------------------
\* Camera (lines 469-508)

\* the identifier of a vector value different from the one `id` names
NextPose(id) ==
    id + 1

\* a resolve that keeps accumulating whatever the dirty flag says
ResolvedFrameNumberNoReset(changed, number) ==
    number

\* frame_number as updateCamera publishes it (lines 498-499)
ResolvedFrameNumber(changed, number) ==
    IF changed THEN 1 ELSE number

\* updateCamera.  trans = frame * R * R * frame_inv is a rotation about
\* camera_lookat (the origin of frame): the identity when R is, and otherwise
\* it moves camera_eye and maps camera_lookat to itself.  With the eye at the
\* lookat, W = camera_lookat - camera_eye is the zero vector, normalize
\* divides by its length 0, and the basis, frame, trans and both transformed
\* points are NaN
updateCamera ==
    /\ frame' = <<camera_eye, camera_lookat>>
    /\ camera_eye' = IF eye_offset = AtLookat THEN NaNPose
                     ELSE IF camera_rotate = Identity
                     THEN camera_eye ELSE NextPose(camera_eye)
    /\ camera_lookat' = IF eye_offset = AtLookat THEN NaNPose
                        ELSE camera_lookat
    /\ camera_rotate' = Identity
    /\ orbit_trail' = << >>
    /\ LET published == ResolvedFrameNumber(camera_changed, frame_number)
       IN  /\ ctx_frame_number' = published
           /\ frame_number' = published + 1
           /\ last_resolve_pub' = published
    /\ resolves' = resolves + 1
    /\ camera_changed' = FALSE

-----------------------------------------------------------------------------
\* Interactive mode (lines 522-687)

\* glutRun (lines 522-548): callbacks and the exit handler are registered and
\* glutMainLoop is entered.  Without glutInit there is no window: the library
\* ends the process at glutShowWindow (line 534), before line 545
glutRun ==
    /\ pc = "glutRun"
    /\ IF glut_initialized
       THEN /\ exit_handler' = TRUE
            /\ pc' = "mainloop"
            /\ exit_code' = exit_code
       ELSE /\ pc' = "exit"
            /\ exit_code' = 1
            /\ UNCHANGED exit_handler
    /\ ev' = <<"glutRun", 0, 0>>
    /\ UNCHANGED << argVars, sizeVars, glut_initialized, ctxVars, output_buffer,
                    sceneVars, poseVars, counterVars, mouseVars, timeVars,
                    histVars >>

\* a dispatcher that also calls callbacks while a launch has not returned
DispatchPositionsReentrant ==
    {"mainloop", "displaying"}

\* where the process is when GLUT calls a registered callback: inside
\* glutMainLoop (line 547), between two callbacks, on the one thread
DispatchPositions ==
    {"mainloop"}

\* glutDisplay (lines 557-588) up to the call of context->launch (line 560):
\* the resolve, then the process is inside the blocking launch
glutDisplay ==
    /\ pc \in DispatchPositions
    /\ launches < MaxLaunches
    /\ updateCamera
    /\ in_flight' = in_flight + 1
    /\ resolves_at_launch' = resolves'
    /\ pose_at_launch' = <<camera_eye', camera_lookat'>>
    /\ pc' = "displaying"
    /\ ev' = <<"glutDisplay", 0, 0>>
    /\ UNCHANGED << exit_code, argVars, sizeVars, glutVars, ctxVars,
                    output_buffer, sceneVars, mouseVars, timeVars, launches,
                    exports, at_export, failed,
                    error_kind >>

\* the rest of glutDisplay (lines 560-587): the launch returns and the buffer
\* is displayed, or the launch throws and unwinds to SUTIL_CATCH
glutDisplayReturn ==
    /\ pc = "displaying"
    /\ in_flight' = in_flight - 1
    /\ UNCHANGED << resolves_at_launch, pose_at_launch >>
    /\ \/ /\ launches' = launches + 1
          /\ pc' = "mainloop"
          /\ UNCHANGED << failed, error_kind >>
       \/ /\ pc' = "catch"
          /\ failed' = TRUE /\ error_kind' = "context"
          /\ UNCHANGED launches
    /\ ev' = <<"glutDisplayReturn", 0, 0>>
    /\ UNCHANGED << exit_code, argVars, sizeVars, glutVars, ctxVars,
                    output_buffer, sceneVars, poseVars, counterVars, mouseVars,
                    timeVars, exports, at_export >>

\* glutKeyboardPress (lines 591-610)
glutKeyboardPress(k) ==
    /\ pc \in DispatchPositions
    /\ IF k \in {113, 27}
       THEN /\ destroyContext
            /\ pc' = "exit"
            /\ exit_code' = 0
       ELSE UNCHANGED << ctxVars, pc, exit_code >>
    /\ ev' = <<"glutKeyboardPress", 0, 0>>
    /\ UNCHANGED << argVars, sizeVars, glutVars, output_buffer, sceneVars,
                    poseVars, counterVars, mouseVars, timeVars, histVars >>

\* glutMousePress (lines 613-624)
glutMousePress(button, state, x, y) ==
    /\ pc \in DispatchPositions
    /\ IF state = 0
       THEN /\ mouse_button' = button
            /\ mouse_prev_pos' = <<x, y>>
       ELSE UNCHANGED << mouse_button, mouse_prev_pos >>
    /\ ev' = <<"glutMousePress", 0, 0>>
    /\ UNCHANGED << procVars, argVars, sizeVars, glutVars, ctxVars,
                    output_buffer, sceneVars, poseVars, counterVars, moves,
                    eye_offset, timeVars, histVars >>

Abs(n) ==
    IF n < 0 THEN -n ELSE n

\* lines 631-636: scale = min(dmax, 0.9) as a fraction <<numerator, denominator>>,
\* dmax being dx = ddx / w or dy = ddy / h, whichever is larger in magnitude
DollyScale(ddx, ddy, w, h) ==
    LET dmax == IF Abs(ddx) * h > Abs(ddy) * w THEN <<ddx, w>> ELSE <<ddy, h>>
    IN  IF 10 * dmax[1] > 9 * dmax[2] THEN <<9, 10>> ELSE dmax

\* arcball.rotate( b, a ) (line 650): the rotation taking the sphere point of
\* a = from / size to that of b = to / size
ArcballRotate(to, from, w, h) ==
    IF to = from THEN Identity
    ELSE << to[1], to[2], from[1], from[2], w, h >>

\* the rotation taking the sphere point of b back to that of a
Inverse(r) ==
    IF r = Identity THEN Identity
    ELSE << r[3], r[4], r[1], r[2], r[5], r[6] >>

\* the matrix product of the rotations of `word` and then r: a rotation
\* cancels against its inverse, the identity adds nothing, and distinct
\* rotations are taken to satisfy no other relation
Compose(word, r) ==
    IF r = Identity THEN word
    ELSE IF word # << >> /\ word[Len(word)] = Inverse(r)
    THEN SubSeq(word, 1, Len(word) - 1)
    ELSE Append(word, r)

\* a motion callback whose pan branch moves the camera without marking it
\* changed
glutMouseMotionPanClean(x, y) ==
    /\ pc \in DispatchPositions
    /\ moves < MaxMoves
    /\ moves' = moves + 1
    /\ LET ddx == x - mouse_prev_pos[1]
           ddy == y - mouse_prev_pos[2]
       IN  IF mouse_button = 2
           THEN /\ camera_eye' =
                       IF DollyScale(ddx, ddy, width, height)[1] = 0
                       THEN camera_eye ELSE NextPose(camera_eye)
                /\ camera_changed' = TRUE
                /\ UNCHANGED << camera_lookat, camera_rotate >>
           ELSE IF mouse_button = 0
           THEN /\ camera_rotate' =
                       ArcballRotate(<<x, y>>, mouse_prev_pos, width, height)
                /\ camera_changed' = TRUE
                /\ UNCHANGED << camera_eye, camera_lookat >>
           ELSE IF mouse_button = 1
           THEN /\ LET still == (ddx = 0 /\ ddy = 0) \/ frame = ZeroMatrix
                   IN  /\ camera_eye' =
                              IF still THEN camera_eye ELSE NextPose(camera_eye)
                       /\ camera_lookat' =
                              IF still THEN camera_lookat
                              ELSE NextPose(camera_lookat)
                /\ UNCHANGED << camera_rotate, camera_changed >>
           ELSE UNCHANGED << camera_eye, camera_lookat, camera_rotate,
                             camera_changed >>
    /\ mouse_prev_pos' = <<x, y>>
    /\ ev' = <<"glutMouseMotion", x, y>>
    /\ UNCHANGED << procVars, argVars, sizeVars, glutVars, ctxVars,
                    output_buffer, sceneVars, frame, frame_number,
                    ctx_frame_number, last_resolve_pub, resolves, mouse_button,
                    timeVars, histVars >>

\* the last mantissa bit of the components of camera_lookat
\* = (-6.59f, 169.94f, -9.11f) (line 463)
LookatParity ==
    <<0, 0, 1>>

\* round-to-nearest of the float sum whose exact value is num / den float
\* steps from camera_lookat (den > 0): the nearest step, and on a tie the one
\* whose float has an even mantissa
RoundNearest(num, den, parity) ==
    LET q == (2 * num + den) \div (2 * den)
    IN  IF (2 * num + den) % (2 * den) = 0 /\ (q + parity) % 2 # 0
        THEN q - 1 ELSE q

\* line 637 on one component, in float steps from camera_lookat: the
\* difference camera_lookat - camera_eye = -offset is exact, and the sum of
\* camera_eye and its product with scale = n / d is offset * (d - n) / d,
\* rounded to a float
DollyComponent(offset, scale, parity) ==
    RoundNearest(offset * (scale[2] - scale[1]), scale[2], parity)

\* camera_eye + (camera_lookat - camera_eye) * scale (line 637)
DollyOffset(offset, scale) ==
    IF offset = FarFromLookat THEN FarFromLookat
    ELSE [c \in 1..3 |-> DollyComponent(offset[c], scale, LookatParity[c])]

\* glutMouseMotion (lines 627-669)
glutMouseMotion(x, y) ==
    /\ pc \in DispatchPositions
    /\ moves < MaxMoves
    /\ moves' = moves + 1
    /\ LET ddx == x - mouse_prev_pos[1]
           ddy == y - mouse_prev_pos[2]
       IN  IF mouse_button = 2
           THEN /\ camera_eye' =
                       IF DollyScale(ddx, ddy, width, height)[1] = 0
                       THEN camera_eye ELSE NextPose(camera_eye)
                /\ camera_changed' = TRUE
                /\ UNCHANGED << camera_lookat, camera_rotate >>
           ELSE IF mouse_button = 0
           THEN /\ camera_rotate' =
                       ArcballRotate(<<x, y>>, mouse_prev_pos, width, height)
                /\ camera_changed' = TRUE
                /\ UNCHANGED << camera_eye, camera_lookat >>
           ELSE IF mouse_button = 1
           THEN /\ LET still == (ddx = 0 /\ ddy = 0) \/ frame = ZeroMatrix
                   IN  /\ camera_eye' =
                              IF still THEN camera_eye ELSE NextPose(camera_eye)
                       /\ camera_lookat' =
                              IF still THEN camera_lookat
                              ELSE NextPose(camera_lookat)
                /\ camera_changed' = TRUE
                /\ UNCHANGED camera_rotate
           ELSE UNCHANGED << camera_eye, camera_lookat, camera_rotate,
                             camera_changed >>
    /\ mouse_prev_pos' = <<x, y>>
    /\ ev' = <<"glutMouseMotion", x, y>>
    /\ UNCHANGED << procVars, argVars, sizeVars, glutVars, ctxVars,
                    output_buffer, sceneVars, frame, frame_number,
                    ctx_frame_number, last_resolve_pub, resolves, mouse_button,
                    timeVars,
                    histVars >>

\* The callbacks of lines 542-543 as GLUT calls them for a real pointer: the
\* mouse callback once per button press and once per release, the motion
\* callback only while at least one button is held down
buttonDown(button, x, y) ==
    /\ button \notin held
    /\ Cardinality(held) < MaxHeld
    /\ glutMousePress(button, 0, x, y)
    /\ held' = held \cup {button}
    /\ after_release' = FALSE

buttonUp(button, x, y) ==
    /\ button \in held
    /\ glutMousePress(button, 1, x, y)
    /\ held' = held \ {button}
    /\ after_release' = TRUE

pointerDrag(x, y) ==
    /\ held # {}
    /\ glutMouseMotion(x, y)
    /\ orbit_trail' =
           IF mouse_button = 0
           THEN Compose(orbit_trail,
                        ArcballRotate(<<x, y>>, mouse_prev_pos, width, height))
           ELSE orbit_trail
    /\ eye_offset' =
           IF mouse_button = 2
           THEN DollyOffset(eye_offset,
                            DollyScale(x - mouse_prev_pos[1],
                                       y - mouse_prev_pos[2], width, height))
           ELSE eye_offset
    /\ UNCHANGED pointerVars

\* a resize that stores the size it was given without the minimum
ensureMinimumSizeNone(n) ==
    n

\* sutil::ensureMinimumSize on the unsigned globals (line 680)
ensureMinimumSize(n) ==
    IF n = 0 THEN 1 ELSE n

\* the test of line 674
SameSize(w, h) ==
    w = width /\ h = height

\* a reshape that stores the new size and leaves the buffer as it was
glutResizeNoBuffer(w, h) ==
    /\ pc \in DispatchPositions
    /\ IF SameSize(w, h)
       THEN UNCHANGED << camera_changed, width, height >>
       ELSE /\ camera_changed' = TRUE
            /\ width' = ensureMinimumSize(ToUint32(w))
            /\ height' = ensureMinimumSize(ToUint32(h))
    /\ UNCHANGED output_buffer
    /\ ev' = <<"glutResize", w, h>>
    /\ UNCHANGED << procVars, argVars, glutVars, ctxVars, sceneVars, poseVars,
                    frame_number, ctx_frame_number, last_resolve_pub, resolves,
                    mouseVars,
                    timeVars, histVars >>

\* glutResize (lines 672-687)
glutResize(w, h) ==
    /\ pc \in DispatchPositions
    /\ IF SameSize(w, h)
       THEN UNCHANGED << camera_changed, width, height, output_buffer >>
       ELSE /\ camera_changed' = TRUE
            /\ width' = ensureMinimumSize(ToUint32(w))
            /\ height' = ensureMinimumSize(ToUint32(h))
            /\ output_buffer' = <<width', height'>>
    /\ ev' = <<"glutResize", w, h>>
    /\ UNCHANGED << procVars, argVars, glutVars, ctxVars, sceneVars, poseVars,
                    frame_number, ctx_frame_number, last_resolve_pub, resolves,
                    mouseVars,
                    timeVars, histVars >>

\* the window is closed: GLUT ends the process with exit()
windowClose ==
    /\ pc \in DispatchPositions
    /\ pc' = "exit"
    /\ exit_code' = 0
    /\ ev' = <<"windowClose", 0, 0>>
    /\ UNCHANGED << argVars, sizeVars, glutVars, ctxVars, output_buffer,
                    sceneVars, poseVars, counterVars, mouseVars, timeVars,
                    histVars >>

-----------------------------------------------------------------------------
\* Batch mode (lines 812-855)

\* a deadline test that ignores the predicted duration of the next frame
DeadlineTrippedNoPrediction(used_time, delta_time, limit) ==
    10 * used_time > 10 * limit

\* a deadline test that never trips
DeadlineNeverTrips(used_time, delta_time, limit) ==
    FALSE

\* the test of line 838, used_time + delta_time * 1.1 > time_limit, in tenths
DeadlineTripped(used_time, delta_time, limit) ==
    10 * used_time + 11 * delta_time > 10 * limit

\* a loop exit that skips the export of the image
AfterLoopNoExport ==
    "destroy"

\* the statement that follows the loop, reached by its condition and by break
\* (lines 842-849)
AfterLoop ==
    "export"

\* a loop condition that admits one iteration too many
LoopContinuesOffByOne(i, n, unbounded) ==
    i <= n \/ unbounded

\* the loop condition of line 830
LoopContinues(i, n, unbounded) ==
    i < n \/ unbounded

\* a report that counts the frame the loop did not start
ReportedSamplesPlusOne(i) ==
    i + 1

\* the number printed after "sampled: " (line 841)
ReportedSamples(i) ==
    i

\* lines 812-827: the one resolve of the batch path, then last_time is read.
\* The time main() has used so far is drawn here
batchUpdateCamera ==
    /\ pc = "batch"
    /\ updateCamera
    /\ \E setup \in SetupTimes :
           /\ now' = now + setup
           /\ last_time' = now + setup
    /\ loop_i' = 0
    /\ pc' = "loop"
    /\ ev' = <<"updateCamera", 0, 0>>
    /\ UNCHANGED << exit_code, argVars, sizeVars, glutVars, ctxVars,
                    output_buffer, sceneVars, mouseVars, launch_time, sampled,
                    prev_dur, chk, histVars >>

\* the head of one iteration (lines 830-843): loop condition, the two clock
\* differences, and the deadline prediction
batchCheck ==
    /\ pc = "loop"
    /\ IF ~LoopContinues(loop_i, sample, use_time_limit)
       THEN /\ pc' = AfterLoop
            /\ UNCHANGED << last_time, chk, sampled >>
       ELSE LET used_time == now - launch_time
                delta_time == now - last_time
            IN  /\ last_time' = now
                /\ chk' = <<used_time, delta_time>>
                /\ IF DeadlineTripped(used_time, delta_time, time_limit)
                   THEN /\ sampled' = ReportedSamples(loop_i)
                        /\ pc' = AfterLoop
                   ELSE /\ pc' = "launch"
                        /\ UNCHANGED sampled
    /\ ev' = <<"batchCheck", 0, 0>>
    /\ UNCHANGED << exit_code, argVars, sizeVars, glutVars, ctxVars,
                    output_buffer, sceneVars, poseVars, counterVars, mouseVars,
                    now, launch_time, loop_i, prev_dur, histVars >>

\* a batch loop that resolves the camera before every launch
batchLaunchResolving ==
    /\ pc = "launch"
    /\ launches < MaxLaunches
    /\ updateCamera
    /\ in_flight' = in_flight + 1
    /\ resolves_at_launch' = resolves'
    /\ pose_at_launch' = <<camera_eye', camera_lookat'>>
    /\ pc' = "launching"
    /\ ev' = <<"launch", 0, 0>>
    /\ UNCHANGED << exit_code, argVars, sizeVars, glutVars, ctxVars,
                    output_buffer, sceneVars, mouseVars, timeVars, launches,
                    exports, at_export, failed, error_kind >>

\* line 845: main() enters the blocking context->launch
batchLaunch ==
    /\ pc = "launch"
    /\ launches < MaxLaunches
    /\ in_flight' = in_flight + 1
    /\ resolves_at_launch' = resolves
    /\ pose_at_launch' = <<camera_eye, camera_lookat>>
    /\ pc' = "launching"
    /\ ev' = <<"launch", 0, 0>>
    /\ UNCHANGED << exit_code, argVars, sizeVars, glutVars, ctxVars,
                    output_buffer, sceneVars, poseVars, counterVars, mouseVars,
                    timeVars, launches, exports, at_export, failed,
                    error_kind >>

\* a loop body that publishes the counter after incrementing it
batchLaunchReturnPreIncrement ==
    /\ pc = "launching"
    /\ in_flight' = in_flight - 1
    /\ UNCHANGED << resolves_at_launch, pose_at_launch >>
    /\ \/ \E duration \in Durations :
              /\ now' = now + duration
              /\ prev_dur' = duration
              /\ launches' = launches + 1
              /\ ctx_frame_number' = frame_number + 1
              /\ frame_number' = frame_number + 1
              /\ loop_i' = loop_i + 1
              /\ pc' = "loop"
              /\ UNCHANGED << failed, error_kind >>
       \/ /\ pc' = "catch"
          /\ failed' = TRUE /\ error_kind' = "context"
          /\ UNCHANGED << now, prev_dur, launches, ctx_frame_number,
                          frame_number, loop_i >>
    /\ ev' = <<"launchReturn", 0, 0>>
    /\ UNCHANGED << exit_code, argVars, sizeVars, glutVars, ctxVars,
                    output_buffer, sceneVars, poseVars, camera_changed,
                    last_resolve_pub, resolves, mouseVars, launch_time,
                    last_time,
                    sampled, chk, exports, at_export >>

\* lines 845-847: the launch returns after `duration`, then the frame counter
\* is published and ++i; or the launch throws
batchLaunchReturn ==
    /\ pc = "launching"
    /\ in_flight' = in_flight - 1
    /\ UNCHANGED << resolves_at_launch, pose_at_launch >>
    /\ \/ \E duration \in Durations :
              /\ now' = now + duration
              /\ prev_dur' = duration
              /\ launches' = launches + 1
              /\ ctx_frame_number' = frame_number
              /\ frame_number' = frame_number + 1
              /\ loop_i' = loop_i + 1
              /\ pc' = "loop"
              /\ UNCHANGED << failed, error_kind >>
       \/ /\ pc' = "catch"
          /\ failed' = TRUE /\ error_kind' = "context"
          /\ UNCHANGED << now, prev_dur, launches, ctx_frame_number,
                          frame_number, loop_i >>
    /\ ev' = <<"launchReturn", 0, 0>>
    /\ UNCHANGED << exit_code, argVars, sizeVars, glutVars, ctxVars,
                    output_buffer, sceneVars, poseVars, camera_changed,
                    last_resolve_pub, resolves, mouseVars, launch_time,
                    last_time,
                    sampled, chk, exports, at_export >>

\* sutil::displayBufferPNG (line 849)
batchExport ==
    /\ pc = "export"
    /\ exports' = exports + 1
    /\ at_export' = <<launches, destroys>>
    /\ pc' = "destroy"
    /\ ev' = <<"displayBufferPNG", 0, 0>>
    /\ UNCHANGED << exit_code, argVars, sizeVars, glutVars, ctxVars,
                    output_buffer, sceneVars, poseVars, counterVars, mouseVars,
                    timeVars, launches, in_flight, resolves_at_launch,
                    pose_at_launch, failed,
                    error_kind >>

\* destroyContext() and return 0 (lines 850-857)
batchDestroy ==
    /\ pc = "destroy"
    /\ destroyContext
    /\ pc' = "exit"
    /\ exit_code' = 0
    /\ ev' = <<"destroyContext", 0, 0>>
    /\ UNCHANGED << argVars, sizeVars, glutVars, output_buffer, sceneVars,
                    poseVars, counterVars, mouseVars, timeVars, histVars >>

-----------------------------------------------------------------------------
Next ==
    \/ ParseArgs
    \/ InitWindow
    \/ createContext
    \/ setupCamera
    \/ setupScene
    \/ validate
    \/ glutRun
    \/ glutDisplay
    \/ glutDisplayReturn
    \/ \E k \in Keys : glutKeyboardPress(k)
    \/ \E b \in Buttons, st \in ButtonStates, p \in Positions :
           glutMousePress(b, st, p[1], p[2]) /\ UNCHANGED pointerVars
    \/ \E p \in Positions :
           /\ glutMouseMotion(p[1], p[2])
           /\ UNCHANGED << pointerVars, orbit_trail, eye_offset >>
    \/ \E size \in ResizeSizes : glutResize(size[1], size[2])
    \/ windowClose
    \/ batchUpdateCamera
    \/ batchCheck
    \/ batchLaunch
    \/ batchLaunchReturn
    \/ batchExport
    \/ batchDestroy
    \/ catch
    \/ runExitHandlers

Spec ==
    Init /\ [][Next]_vars

-----------------------------------------------------------------------------
\* createGeometryLight over any list of registered lights: main() has reached
\* setupScene with the default options, and the registry holds up to MaxLights
\* lights instead of the two of lines 385-401

LightPositions ==
    {<<50000, 310000, 50000>>, <<10, 166787, 190000>>}
LightRadii ==
    {2, 10}
LightChoices ==
    { NewLight(p, r, <<1000, 1000, 1000>>, junk) :
          p \in LightPositions, r \in LightRadii, junk \in UninitVecs }

InitLight ==
    /\ InitCommon
    /\ pc = "setupScene"
    /\ argv = << >>
    /\ glut_initialized = TRUE
    /\ context = 1
    /\ created = 1
    /\ output_buffer = <<width, height>>
    /\ camera_eye = 1
    /\ camera_lookat = 1
    /\ camera_rotate = Identity
    /\ ev = <<"setupCamera", 0, 0>>
    /\ light_registry \in UNION { [1..n -> LightChoices] : n \in 0..MaxLights }
    /\ raymarch_scale = SceneScale
    /\ eye_offset = FarFromLookat

NextLight ==
    setupScene

SpecLight ==
    InitLight /\ [][NextLight]_vars

-----------------------------------------------------------------------------
\* createRaymrachingObject over other scales than those of lines 337-338:
\* main() has reached setupScene with the default options, and createGeometry
\* passes a world_scale and a unit_scale drawn from the sets below

ScaleComponents ==
    {0, 1, 4300}
WorldScales ==
    {<<300000, 300000, 300000>>, <<1, 2, 3>>}

InitScale ==
    /\ InitCommon
    /\ pc = "setupScene"
    /\ argv = << >>
    /\ glut_initialized = TRUE
    /\ context = 1
    /\ created = 1
    /\ output_buffer = <<width, height>>
    /\ camera_eye = 1
    /\ camera_lookat = 1
    /\ camera_rotate = Identity
    /\ ev = <<"setupCamera", 0, 0>>
    /\ light_registry = SceneLights(<<0, 0, 0>>, <<0, 0, 0>>)
    /\ \E world \in WorldScales, unit \in [1..3 -> ScaleComponents] :
           raymarch_scale = [world |-> world, unit |-> unit]
    /\ eye_offset = FarFromLookat

NextScale ==
    setupScene

SpecScale ==
    InitScale /\ [][NextScale]_vars

-----------------------------------------------------------------------------
\* The camera controller under a real pointer: main() has reached setupScene
\* with the default options, the interactive loop is entered, and the mouse
\* and motion callbacks are called as GLUT calls them

InitCamera ==
    /\ InitCommon
    /\ pc = "setupScene"
    /\ argv = << >>
    /\ glut_initialized = TRUE
    /\ context = 1
    /\ created = 1
    /\ output_buffer = <<width, height>>
    /\ camera_eye = 1
    /\ camera_lookat = 1
    /\ camera_rotate = Identity
    /\ ev = <<"setupCamera", 0, 0>>
    /\ light_registry = SceneLights(<<0, 0, 0>>, <<0, 0, 0>>)
    /\ raymarch_scale = SceneScale
    /\ eye_offset = FarFromLookat

NextCamera ==
    \/ setupScene
    \/ validate
    \/ glutRun
    \/ glutDisplay
    \/ glutDisplayReturn
    \/ \E b \in Buttons, p \in Positions : buttonDown(b, p[1], p[2])
    \/ \E b \in Buttons, p \in Positions : buttonUp(b, p[1], p[2])
    \/ \E p \in Positions : pointerDrag(p[1], p[2])

SpecCamera ==
    InitCamera /\ [][NextCamera]_vars

-----------------------------------------------------------------------------
\* The dolly close to the lookat: main() has reached setupScene with the
\* default options, and the camera is where earlier dolly moves have taken it.
\* From the pose of lines 462-463, drags of at least 0.9 of the window width
\* leave camera_eye - camera_lookat at (43, 0, 443) float steps after the
\* sixth, (4, 0, 44) after the seventh and (0, 0, 4) after the eighth.  Only
\* the right button is used, so that every move is a dolly

DollyStarts ==
    {<<43, 0, 443>>, <<4, 0, 44>>, <<0, 0, 4>>}
\* cursor positions of wide drags across the 480 x 270 window
DragPositions ==
    {<<0, 0>>, <<240, 0>>, <<480, 0>>}

InitDolly ==
    /\ InitCommon
    /\ pc = "setupScene"
    /\ argv = << >>
    /\ glut_initialized = TRUE
    /\ context = 1
    /\ created = 1
    /\ output_buffer = <<width, height>>
    /\ camera_eye = 1
    /\ camera_lookat = 1
    /\ camera_rotate = Identity
    /\ ev = <<"setupCamera", 0, 0>>
    /\ light_registry = SceneLights(<<0, 0, 0>>, <<0, 0, 0>>)
    /\ raymarch_scale = SceneScale
    /\ eye_offset \in DollyStarts

NextDolly ==
    \/ setupScene
    \/ validate
    \/ glutRun
    \/ glutDisplay
    \/ glutDisplayReturn
    \/ \E p \in DragPositions : buttonDown(2, p[1], p[2])
    \/ \E p \in DragPositions : buttonUp(2, p[1], p[2])
    \/ \E p \in DragPositions : pointerDrag(p[1], p[2])

SpecDolly ==
    InitDolly /\ [][NextDolly]_vars

-----------------------------------------------------------------------------
\* The batch path as the one thread of main() runs it: every statement that can
\* run does run (weak fairness of the steps), and every frame takes at least
\* the smallest positive duration.  The command lines are batch runs whose
\* loop ends within MaxLaunches launches

BatchArgVectors ==
    { <<"-f", "out.png", "-s", "2">>,
      <<"--sample", "0", "--file", "out.png">>,
      <<"-s", "1", "-f", "out.png", "--time", "3">>,
      <<"-f", "out.png", "-s", "3", "-W", "1", "-H", "1">>,
      <<"-f", "out.png", "-t", "1">> }

PositiveDurations ==
    Durations \ {0}

InitBatch ==
    /\ InitCommon
    /\ pc = "main"
    /\ argv \in BatchArgVectors
    /\ glut_initialized = FALSE
    /\ context = 0
    /\ created = 0
    /\ output_buffer = << >>
    /\ camera_eye = 0
    /\ camera_lookat = 0
    /\ camera_rotate = ZeroMatrix
    /\ ev = <<"start", 0, 0>>
    /\ \E junk \in SceneJunk :
           light_registry = SceneLights(junk[1], junk[2])
    /\ raymarch_scale = SceneScale
    /\ eye_offset = FarFromLookat

\* the launch of line 845 returns after a positive time, or throws
timedLaunchReturn ==
    /\ batchLaunchReturn
    /\ pc' = "loop" => prev_dur' \in PositiveDurations

NextBatch ==
    \/ ParseArgs
    \/ InitWindow
    \/ createContext
    \/ setupCamera
    \/ setupScene
    \/ validate
    \/ batchUpdateCamera
    \/ batchCheck
    \/ batchLaunch
    \/ timedLaunchReturn
    \/ batchExport
    \/ batchDestroy
    \/ catch
    \/ runExitHandlers

SpecBatch ==
    InitBatch /\ [][NextBatch]_vars /\ WF_vars(NextBatch)

-----------------------------------------------------------------------------
\* Properties

\* the steps that run updateCamera: glutDisplay, and the resolve of the batch path
ResolveSteps ==
    {"glutDisplay", "updateCamera"}

\* the run is a batch run whose setup completed and in which nothing threw
BatchRun ==
    out_file # "" /\ validated /\ ~failed

\* C1: a resolve that starts with the dirty flag set publishes frame counter 1
\* and clears the flag; a resolve that starts with the flag clear publishes
\* exactly one more than the previous resolve published (and leaves it clear)
C1_ResolveCounter ==
    [][ ev'[1] \in ResolveSteps =>
          /\ ~camera_changed'
          /\ IF camera_changed
             THEN ctx_frame_number' = 1
             ELSE ctx_frame_number' = last_resolve_pub + 1 ]_vars

\* three frames were displayed and the camera was moved once in between: the
\* counter restarted at 1 and the last resolve published 2
C1_Witness ==
    /\ ev[1] = "glutDisplayReturn"
    /\ launches = 3
    /\ moves = 1
    /\ ctx_frame_number = 2
    /\ last_resolve_pub = 2
    /\ ~camera_changed

\* C2 as stated: a batch run without -t that ends normally has issued exactly
\* `sample` launches and one export
C2_Original ==
    (pc = "done" /\ BatchRun /\ ~use_time_limit) =>
        (launches = sample /\ exports = 1)

\* C2: in a batch run without -t the default limit of 3600 s still applies.
\* Once the loop is over, exactly one export was made; the launches are
\* `sample` when no check tripped, and otherwise the count printed as
\* "sampled:", which is below `sample`, with the tripped check over the limit
C2_LaunchCount ==
    (pc \in {"destroy", "exit", "done"} /\ BatchRun /\ ~use_time_limit) =>
        /\ exports = 1
        /\ time_limit = 3600
        /\ IF sampled = -1
           THEN launches = sample
           ELSE /\ launches = sampled
                /\ launches < sample
                /\ 10 * chk[1] + 11 * chk[2] > 10 * 3600

\* "-f out.png -s 2" ran its two frames and exported once
C2_Witness ==
    /\ pc = "done"
    /\ BatchRun
    /\ ~use_time_limit
    /\ sample = 2
    /\ launches = 2
    /\ sampled = -1
    /\ exports = 1

\* C3: in a batch run a launch is issued only if, at the check immediately
\* before it, elapsed + 1.1 * predicted <= time_limit, where elapsed is the time
\* since main() started and predicted the duration of the previous frame (0
\* for the first)
C3_DeadlineGuard ==
    pc = "launch" =>
        /\ chk[1] = now - launch_time
        /\ chk[2] = prev_dur
        /\ (launches = 0 => chk[2] = 0)
        /\ 10 * (now - launch_time) + 11 * prev_dur <= 10 * time_limit

\* with -t, a second frame is about to be launched after a first one that took time
C3_Witness ==
    /\ pc = "launch"
    /\ use_time_limit
    /\ launches = 1
    /\ prev_dur = 1
    /\ chk = <<1, 1>>

\* C4: whatever teardown triggers fire, context->destroy() runs at most once
\* for the created context: the first destroyContext call destroys it and
\* clears the handle, every later call does nothing
C4_DestroyOnce ==
    /\ destroys <= created
    /\ destroys <= 1
    /\ (destroy_calls >= 1 => destroys = 1 /\ context = 0)
    /\ (context # 0 => destroys = 0)

\* the quit key called destroyContext and the exit handler called it again
C4_Witness ==
    /\ pc = "done"
    /\ destroy_calls = 2
    /\ destroys = 1
    /\ context = 0

\* C5 as stated: when a step failed after the context was created, the
\* context has been destroyed by the time the process has exited
C5_Original ==
    (pc = "done" /\ failed /\ created = 1) => (destroys = 1 /\ context = 0)

\* C6 as stated: right after glutResize(w, h) the output buffer is w x h and
\* the dirty flag is set
C6_Original ==
    ev[1] = "glutResize" =>
        (output_buffer = <<ev[2], ev[3]>> /\ camera_changed)

\* the size glutResize stores for a requested dimension n >= 0
Clamped(n) ==
    IF n < 1 THEN 1 ELSE n

\* C6: for w, h >= 0, glutResize(w, h) with (w, h) equal to the current size
\* changes neither the buffer nor the dirty flag; with any other size the
\* buffer becomes max(w, 1) x max(h, 1) and the dirty flag is set
C6_Resize ==
    [][ ev'[1] = "glutResize" =>
          IF ev'[2] = width /\ ev'[3] = height
          THEN /\ output_buffer' = output_buffer
               /\ output_buffer' = <<ev'[2], ev'[3]>>
               /\ camera_changed' = camera_changed
          ELSE /\ output_buffer' = <<Clamped(ev'[2]), Clamped(ev'[3])>>
               /\ <<width', height'>> = output_buffer'
               /\ camera_changed' ]_vars

\* a 0 x 0 reshape arrived after a frame had cleared the dirty flag: the
\* buffer is 1 x 1 and the flag is set again
C6_Witness ==
    /\ ev = <<"glutResize", 0, 0>>
    /\ launches > 0
    /\ output_buffer = <<1, 1>>
    /\ camera_changed

\* C7: after createGeometryLight the buffer has as many entries as lights were
\* registered, sysNumberOfLights is that number, entry i holds the fields of
\* the i-th registered light with area 4 pi r^2 (the normal normalised), and
\* the i-th instance of the light group carries lightMaterialId = i, counted
\* from 0
C7_LightBuffer ==
    finalizes = 1 =>
        /\ Len(sysLightParameters) = Len(light_registry)
        /\ sysNumberOfLights = Len(light_registry)
        /\ Len(light_group.gis) = Len(light_registry)
        /\ \A i \in 1..Len(light_registry) :
               LET reg == light_registry[i]
                   buf == sysLightParameters[i]
               IN  /\ buf.position = reg.position
                   /\ buf.radius = reg.radius
                   /\ buf.emission = reg.emission
                   /\ buf.lightType = reg.lightType
                   /\ buf.u = reg.u
                   /\ buf.v = reg.v
                   /\ buf.area = 4 * reg.radius * reg.radius
                   /\ buf = lightParameters[i]
                   /\ light_group.gis[i].lightMaterialId = i - 1
                   /\ light_group.gis[i].gi.geometry.center = reg.position
                   /\ light_group.gis[i].gi.geometry.radius = reg.radius

\* two lights, radius 10 then radius 2: buffer size 2, the first entry has
\* area 4 pi 10^2 and the second instance has lightMaterialId 1
C7_Witness ==
    /\ finalizes = 1
    /\ Len(light_registry) = 2
    /\ light_registry[1].radius = 10
    /\ light_registry[2].radius = 2
    /\ light_registry[1].position # light_registry[2].position
    /\ Len(sysLightParameters) = 2
    /\ sysLightParameters[1].area = 400
    /\ light_group.gis[2].lightMaterialId = 1

\* positions of main() at which a launch can be issued or has been
LoopPositions ==
    {"mainloop", "displaying", "loop", "launch", "launching", "export",
     "destroy"}

\* C8: no launch is issued before the context was created, setupScene
\* published both groups and the light buffer, and validate returned;
\* setupScene and createGeometryLight run at most once, and exactly once
\* before either render loop is entered
C8_SetupBeforeLaunch ==
    /\ setups <= 1
    /\ finalizes <= 1
    /\ (launches > 0 \/ pc \in LoopPositions) =>
           /\ created = 1
           /\ setups = 1
           /\ finalizes = 1
           /\ validated
           /\ top_shadower # << >>
           /\ top_object # << >>
           /\ Len(sysLightParameters) = sysNumberOfLights
           /\ sysNumberOfLights = Len(light_registry)
    /\ (launches > 0 /\ destroys = 0) => context # 0

\* an interactive frame was launched after the whole setup
C8_Witness ==
    /\ pc = "mainloop"
    /\ launches = 1
    /\ setups = 1
    /\ finalizes = 1
    /\ validated

\* C9: however the batch loop ends, the image is exported exactly once, after
\* the last launch and before the context is destroyed, and the context is
\* then destroyed exactly once
C9_ExportThenTeardown ==
    BatchRun =>
        /\ (pc \in {"loop", "launch", "launching", "export"} =>
                exports = 0 /\ destroys = 0)
        /\ (pc = "destroy" =>
                exports = 1 /\ destroys = 0 /\ at_export = <<launches, 0>>)
        /\ (pc \in {"exit", "done"} =>
                /\ exports = 1
                /\ at_export = <<launches, 0>>
                /\ destroys = 1
                /\ destroy_calls = 1
                /\ context = 0)

\* the first deadline check tripped: no launch, one export, one teardown
C9_Witness ==
    /\ pc = "done"
    /\ BatchRun
    /\ launches = 0
    /\ sampled = 0
    /\ exports = 1
    /\ destroys = 1

\* positions of main() at which setupScene has returned
SceneBuilt ==
    {"validate", "glutRun", "batch"} \cup LoopPositions

\* the geometry instances of a list of geometry groups
InstancesOf(groups) ==
    UNION { { groups[k].gis[j] : j \in DOMAIN groups[k].gis } :
            k \in DOMAIN groups }

\* C10: after setupScene, top_shadower has exactly the two opaque geometry
\* groups and none of its instances is a light; top_object has the children of
\* top_shadower followed by the light geometry group
C10_Groups ==
    pc \in SceneBuilt =>
        /\ Len(top_shadower) = 2
        /\ { top_shadower[k].name : k \in DOMAIN top_shadower } = {"gg", "tri_gg"}
        /\ \A g \in InstancesOf(top_shadower) : g.gi.material = "diffuse"
        /\ InstancesOf(top_shadower) \cap InstancesOf(<<light_group>>) = {}
        /\ top_object = top_shadower \o <<light_group>>
        /\ light_group.name = "light_gg"
        /\ \A g \in InstancesOf(<<light_group>>) :
               g.gi.material = "diffuse_light"

\* the scene of lines 306-428 is built: three opaque instances in the shadow
\* group, the two lights only in the renderable group
C10_Witness ==
    /\ pc = "validate"
    /\ Cardinality(InstancesOf(top_shadower)) = 3
    /\ Cardinality(InstancesOf(top_object)) = 5
    /\ Len(top_object) = 3

\* the camera, window and context state an input handler can write
InputState ==
    << camera_eye, camera_lookat, camera_rotate, camera_changed, frame,
       width, height, output_buffer, context, mouse_button, mouse_prev_pos >>

\* C11: at most one launch is in flight, exactly while the process is inside
\* context->launch; the only step taken while a launch is in flight is its
\* return, so no resolve, launch or input handler runs in between and the
\* camera, window and context state is the same at the return as at the start
C11_OneLaunchInFlight ==
    /\ [](/\ in_flight \in {0, 1}
          /\ in_flight = 1 <=> pc \in {"displaying", "launching"})
    /\ [][ in_flight = 1 =>
             /\ in_flight' = 0
             /\ ev'[1] \in {"glutDisplayReturn", "launchReturn"}
             /\ UNCHANGED InputState ]_vars

\* a second interactive launch is in flight after the pointer was moved
C11_Witness ==
    /\ pc = "displaying"
    /\ in_flight = 1
    /\ launches = 1
    /\ moves = 1
    /\ ev[1] = "glutDisplay"

\* C12 as stated: when a command-line error or an asset-lookup failure is
\* raised, no context and no output buffer have been created
C12_Original ==
    error_kind \in {"usage", "asset"} =>
        (created = 0 /\ context = 0 /\ output_buffer = << >>)

\* the flags of the usage text and of lines 765-782
ValueFlags ==
    {"-f", "--file", "-s", "--sample", "-t", "--time", "-W", "--width",
     "-H", "--height"}
PlainFlags ==
    {"-n", "--nopbo"}
HelpFlags ==
    {"-h", "--help"}

RECURSIVE MeetsArgError(_, _)
\* reading args from position i, left to right and stepping over the value of
\* each value-taking flag, an unknown flag or a value-taking flag in last
\* position is met (before any help flag ends the scan)
MeetsArgError(args, i) ==
    IF i > Len(args) THEN FALSE
    ELSE IF args[i] \in HelpFlags THEN FALSE
    ELSE IF args[i] \in PlainFlags THEN MeetsArgError(args, i + 1)
    ELSE IF args[i] \in ValueFlags
         THEN i = Len(args) \/ MeetsArgError(args, i + 2)
         ELSE TRUE

\* C13: when the scan of the command line meets an unknown flag or a
\* value-taking flag in last position, the usage text is printed and the
\* process exits with code 1; once the usage text was printed no context is
\* ever created and no launch is ever issued
C13_UsageExit ==
    /\ [][ (ev'[1] = "ParseArgs" /\ MeetsArgError(argv, 1)) =>
             /\ error_kind' = "usage"
             /\ pc' = "exit"
             /\ exit_code' = 1 ]_vars
    /\ [](error_kind = "usage" =>
             /\ pc \in {"exit", "done"}
             /\ exit_code = 1
             /\ created = 0
             /\ context = 0
             /\ launches = 0
             /\ in_flight = 0)

\* "-t 10 -W": the scan took the time limit and then met -W without a value;
\* the process has exited with code 1 and nothing was created
C13_Witness ==
    /\ pc = "done"
    /\ error_kind = "usage"
    /\ exit_code = 1
    /\ use_time_limit
    /\ time_limit = 10
    /\ created = 0
    /\ launches = 0

\* C14: from the creation of the context to its teardown the output buffer
\* has the dimensions of the globals width and height, whatever -W / -H gave
\* and whatever reshape events arrived
C14_BufferMatchesSize ==
    (context # 0 /\ destroys = 0) =>
        (Len(output_buffer) = 2 /\ output_buffer = <<width, height>>)

\* after a frame, with no pointer move, a reshape to 480 x 270 left the dirty
\* flag set: a reshape changed the size, and buffer and globals agree
C14_Witness ==
    /\ pc = "mainloop"
    /\ context # 0
    /\ ev = <<"glutResize", 480, 270>>
    /\ moves = 0
    /\ launches = 1
    /\ camera_changed
    /\ output_buffer = <<480, 270>>
    /\ width = 480
    /\ height = 270

\* C15: in a batch run, once a pre-launch check found elapsed + 1.1 * previous
\* frame duration above the limit, the loop is over, no launch is in flight or
\* issued afterwards, and the number reported as "sampled" is the number of
\* launches completed; with -t 10 and a first frame of 9 s the second launch
\* is never reached and the report is 1
C15_DeadlineStop ==
    out_file # "" =>
        /\ sampled # -1 =>
               /\ pc \in {"export", "destroy", "exit", "done"}
               /\ in_flight = 0
               /\ sampled = launches
               /\ 10 * chk[1] + 11 * chk[2] > 10 * time_limit
        /\ (use_time_limit /\ time_limit = 10 /\ launches = 1 /\ prev_dur = 9) =>
               /\ pc \in {"loop", "export", "destroy", "exit", "done"}
               /\ pc # "loop" => sampled = 1

\* -t 10, no setup time, first frame 9 s: the check 9 + 1.1 * 9 > 10 stopped
\* the loop after one launch and 1 was reported
C15_Witness ==
    /\ pc = "done"
    /\ use_time_limit
    /\ time_limit = 10
    /\ launches = 1
    /\ sampled = 1
    /\ chk = <<9, 9>>
    /\ exports = 1

\* C16 as stated: when unit_scale has a zero component, createRaymrachingObject
\* reports a failure and no raymarching instance exists; no instance has a
\* local_scale that is not finite
C16_Original ==
    /\ \A g \in InstancesOf(top_shadower) :
           g.gi.geometry.shape = "raymarching" =>
               \A c \in 1..3 : g.gi.geometry.local_scale[c].finite
    /\ (setups = 1 /\ \E c \in 1..3 : raymarch_scale.unit[c] = 0) =>
           (failed /\ top_shadower = << >>)

\* C17 (as stated): once a button has been released the controller is idle:
\* a pointer move handled before the next button press changes none of the
\* eye, the lookat, the pending rotation and the dirty flag
C17_Original ==
    [][ (after_release /\ ev'[1] = "glutMouseMotion")
            => UNCHANGED << camera_eye, camera_lookat, camera_rotate,
                            camera_changed >> ]_vars

\* a single rotation as a word of rotations
RotationWord(r) ==
    IF r = Identity THEN << >> ELSE << r >>

\* C18 (as stated): the pending rotation a resolve applies is the composition
\* of the arcball rotations of all orbit moves handled since the previous
\* resolve
C18_Original ==
    [][ (ev'[1] = "glutDisplay" /\ launches >= 1)
            => RotationWord(camera_rotate) = orbit_trail ]_vars

\* C19 (as stated): in both modes a launch is entered after exactly one
\* updateCamera since the previous launch was entered
C19_Original ==
    [][ in_flight' = in_flight + 1
            => resolves' - resolves_at_launch = 1 ]_vars

\* C19 (amended): an interactive launch is entered after exactly one
\* updateCamera since the previous launch; a batch run resolves the camera
\* once, before its first launch, and not again before the later ones
C19_ResolvePerFrame ==
    [][ in_flight' = in_flight + 1
            => IF out_file = ""
               THEN resolves' - resolves_at_launch = 1
               ELSE /\ resolves' = 1
                    /\ resolves' - resolves_at_launch
                           = IF launches = 0 THEN 1 ELSE 0 ]_vars

\* the second launch of a batch run was entered after the single resolve
C19_Witness ==
    /\ out_file # ""
    /\ pc = "launching"
    /\ launches = 1
    /\ resolves = 1
    /\ resolves_at_launch = 1

\* GLUT_LEFT_BUTTON, GLUT_MIDDLE_BUTTON, GLUT_RIGHT_BUTTON: orbit, pan, dolly
CameraButtons ==
    {0, 1, 2}

\* C20: a pointer move handled while the left, middle or right button is
\* selected sets the dirty flag and stores the event's (x, y) as the reference
\* cursor position; and when the eye or the lookat differs from what it was
\* when the previous launch was entered, the next interactive launch runs
\* with frame counter 1
C20_MoveMarksDirty ==
    /\ [][ (ev'[1] = "glutMouseMotion" /\ mouse_button \in CameraButtons)
               => /\ camera_changed'
                  /\ mouse_prev_pos' = <<ev'[2], ev'[3]>> ]_vars
    /\ [][ ( /\ ev'[1] = "glutDisplay"
             /\ launches >= 1
             /\ <<camera_eye', camera_lookat'>> # pose_at_launch )
               => /\ in_flight' = 1
                  /\ ctx_frame_number' = 1 ]_vars

\* after a frame, a pan move to (3, 2) has changed the eye and the lookat that
\* the frame was launched with; the counter had advanced to 2 and the dirty
\* flag is set
C20_Witness ==
    /\ pc = "mainloop"
    /\ launches = 1
    /\ ev = <<"glutMouseMotion", 3, 2>>
    /\ mouse_button = 1
    /\ mouse_prev_pos = <<3, 2>>
    /\ <<camera_eye, camera_lookat>> # pose_at_launch
    /\ camera_changed
    /\ frame_number = 2

\* C21 (as stated): after a resolve the pending rotation is the identity, a
\* resolve that finds it the identity leaves the eye and the lookat as they
\* were, and a resolve that follows the previous frame with no input in
\* between publishes the next frame number
C21_Original ==
    [][ ev'[1] \in ResolveSteps
            => /\ camera_rotate' = Identity
               /\ camera_rotate = Identity
                      => /\ camera_eye' = camera_eye
                         /\ camera_lookat' = camera_lookat
               /\ ev[1] = "glutDisplayReturn"
                      => /\ camera_eye' = camera_eye
                         /\ camera_lookat' = camera_lookat
                         /\ ctx_frame_number' = ctx_frame_number + 1 ]_vars

\* C22 (as stated): a dolly move leaves the lookat where it is and does not
\* take the eye to the lookat
C22_Original ==
    [][ ( /\ ev'[1] = "glutMouseMotion"
          /\ mouse_button = 2
          /\ eye_offset # AtLookat )
            => /\ camera_lookat' = camera_lookat
               /\ eye_offset' # AtLookat ]_vars

\* main() is in the batch loop (lines 830-847)
InBatchLoop ==
    pc \in {"loop", "launch", "launching"}

\* C23: the batch loop terminates.  Without a deadline it makes at most
\* `sample` launches; with a deadline, frames of positive duration make the
\* test of line 838 trip; and in both cases, unless a launch throws, the loop
\* is followed by the export and the teardown
C23_BatchTerminates ==
    /\ []( (out_file # "" /\ ~use_time_limit) => launches + in_flight <= sample )
    /\ InBatchLoop ~> (pc \in {"export", "catch"})
    /\ (InBatchLoop /\ use_time_limit) ~> (sampled # -1 \/ failed)
    /\ InBatchLoop ~> (failed \/ (pc = "done" /\ exports = 1 /\ destroys = 1))

\* a run with a deadline of 3 s has ended after the test tripped on the third
\* check, two launches having been made
C23_Witness ==
    /\ pc = "done"
    /\ use_time_limit
    /\ time_limit = 3
    /\ sampled = 2
    /\ launches = 2
    /\ exports = 1
    /\ destroys = 1

\* C24: in batch mode the k-th launch runs with frame counter k in the
\* context: while the launch that follows `launches` completed ones is in
\* flight, context["frame_number"] is launches + 1
C24_BatchFrameCounter ==
    pc = "launching" =>
        /\ out_file # ""
        /\ in_flight = 1
        /\ ctx_frame_number = launches + 1

\* the third launch of a batch run is in flight with frame counter 3
C24_Witness ==
    /\ pc = "launching"
    /\ launches = 2
    /\ ctx_frame_number = 3
    /\ resolves = 1

\* C25 (as stated): whatever -f and -n say, glutRun is entered only when
\* glutInitialize has run before
C25_Original ==
    pc = "glutRun" => glut_initialized

====
